---------------------------- MODULE Spec2Model ----------------------------
(***************************************************************************)
(* Bounded-concurrency page fetch pipeline of able8/oreilly-books.         *)
(*                                                                         *)
(* Two programs are modelled, selected by `variant`:                       *)
(*   "main" : src/main.go          (aggregate into allProducts, then write)*)
(*   "part" : src/unnamed/part_000 (stream the sink into writeCSV)         *)
(*                                                                         *)
(* Goroutines: the main routine (mpc), the dispatcher running              *)
(* fetchProducts (dpc), one fetch task per page (tpc[p]) and the drain     *)
(* consumer / streaming writer (cpc).  Channels and the WaitGroup follow   *)
(* Go's semantics: a send on a full buffered channel blocks, a send on a   *)
(* closed channel panics, a panic runs the goroutine's deferred calls and  *)
(* then crashes the process, while the other goroutines keep running until *)
(* the crash.                                                              *)
(***************************************************************************)
EXTENDS Integers, Sequences, FiniteSets, TLC

VARIABLES
    variant,        \* which program runs: "main" or "part"
    pageMax,        \* const pageMax
    maxConcurrent,  \* const maxConcurrent
    failing,        \* the pages whose fetchData returns an error
    wg,             \* sync.WaitGroup counter
    sem,            \* number of tokens buffered in sem
    productsChan,   \* buffered content of productsChan (batches, FIFO)
    closed,         \* close(productsChan) has been executed
    page,           \* loop variable of fetchProducts
    dpc,            \* position of the dispatcher goroutine
    tpc,            \* position of each fetch task
    panicking,      \* tasks unwinding after a send on the closed channel
    cpc,            \* position of the drain consumer / streaming writer
    mpc,            \* position of the main routine
    allProducts,    \* main.go: var allProducts []Product
    csvFile,        \* lines written by writeCSV
    mdFile,         \* lines written by writeMarkdown
    exit,           \* "running", "done", "panic" or "fatal" (log.Fatalf)
    launches,       \* history: go statements executed per page
    fetches,        \* history: fetchData calls returned per page
    sends,          \* history: completed sends per page
    sentOrder,      \* history: the pages in the order their sends completed
    categories,     \* formatCategories: argument
    formatted,      \* formatCategories: result
    fpc             \* formatCategories: "idle", "call" or "ret"

pipeVars == <<variant, pageMax, maxConcurrent, failing, wg, sem, productsChan,
              closed, page, dpc, tpc, panicking, cpc, mpc, allProducts,
              csvFile, mdFile, exit, launches, fetches, sends, sentOrder>>
fmtVars == <<categories, formatted, fpc>>
vars == <<pipeVars, fmtVars>>

-----------------------------------------------------------------------------
(* Bounds of the model *)

MaxPages == 2
MaxConc == 2
MaxPath == 2
MaxCats == 2

\* Page indices a task may exist for (one more than the largest pageMax).
Pages == 0..MaxPages

-----------------------------------------------------------------------------
(* Strings are sequences of one-character strings, so that slicing and     *)
(* concatenation are computed and not assumed.                             *)

Separator == <<" ", ">", " ">>

Labels == { <<>>, <<"P">>, <<"G", "o">>, <<"W">> }

SeqsUpTo(S, n) == UNION { [1..k -> S] : k \in 0..n }

\* formatted[:len(formatted)-3]
StripTrailingMutant(s) == SubSeq(s, 1, Len(s) - 2)
StripTrailing(s) == SubSeq(s, 1, Len(s) - 3)

\* The loop body of formatCategories: formatted += category[0] + " > "
RECURSIVE AppendFirsts(_, _)
AppendFirsts(cats, acc) ==
    IF cats = <<>> THEN acc
    ELSE AppendFirsts(Tail(cats),
                      IF Len(Head(cats)) > 0
                      THEN acc \o Head(cats)[1] \o Separator
                      ELSE acc)

formatCategories(cats) ==
    LET f == AppendFirsts(cats, <<>>)
    IN  IF Len(f) > 0 THEN StripTrailing(f) ELSE f

-----------------------------------------------------------------------------
(* The data a page returns: response.Data.Products.  A product carries the *)
(* fields the writers read; the other columns are copied through unread.   *)

BatchLen(p) == (p + 1) % 3

CategoriesOf(i) ==
    IF i = 1 THEN << <<<<"P">>, <<"G", "o">>>>, <<<<"W">>>> >> ELSE <<>>

Product(p, i) == [Title |-> <<p, i>>, Categories |-> CategoriesOf(i)]

Products(p) == [i \in 1..BatchLen(p) |-> Product(p, i)]

\* fetchData(url): an error for the failing pages, the page's batch otherwise
fetchData(p) ==
    IF p \in failing THEN [err |-> TRUE, products |-> <<>>]
    ELSE [err |-> FALSE, products |-> Products(p)]

Running == exit = "running"


-----------------------------------------------------------------------------
(* Capacities and loop bound *)

\* sem := make(chan struct{}, maxConcurrent)
semCapMutant == maxConcurrent + 1
semCap == maxConcurrent

\* productsChan := make(chan []Product, maxConcurrent)
chanCapMutant == maxConcurrent + 1
chanCap == maxConcurrent

\* for page := 0; page < pageMax; page++
LoopCondMutant(pg) == pg <= pageMax
LoopCond(pg) == pg < pageMax

-----------------------------------------------------------------------------
(* The dispatcher goroutine: fetchProducts, and in main.go the closure     *)
(* around it.                                                              *)

\* sem <- struct{}{}   (blocks while the gate holds semCap tokens)
DispatcherAcquire ==
    /\ Running /\ dpc = "loop" /\ LoopCond(page)
    /\ sem < semCap
    /\ sem' = sem + 1
    /\ dpc' = "add"
    /\ UNCHANGED <<fmtVars, variant, pageMax, maxConcurrent, failing, wg, productsChan,
                   closed, page, tpc, panicking, cpc, mpc, allProducts,
                   csvFile, mdFile, exit, launches, fetches, sends, sentOrder>>

\* wg.Add(1)
DispatcherAdd ==
    /\ Running /\ dpc = "add"
    /\ wg' = wg + 1
    /\ dpc' = "go"
    /\ UNCHANGED <<fmtVars, variant, pageMax, maxConcurrent, failing, sem, productsChan,
                   closed, page, tpc, panicking, cpc, mpc, allProducts,
                   csvFile, mdFile, exit, launches, fetches, sends, sentOrder>>

\* a launch that hands out the page indices from the top down
DispatcherGoMutant ==
    /\ Running /\ dpc = "go"
    /\ tpc' = [tpc EXCEPT ![pageMax - 1 - page] = "fetch"]
    /\ launches' = [launches EXCEPT ![pageMax - 1 - page] = @ + 1]
    /\ page' = page + 1
    /\ dpc' = "loop"
    /\ UNCHANGED <<fmtVars, variant, pageMax, maxConcurrent, failing, wg, sem,
                   productsChan, closed, panicking, cpc, mpc, allProducts,
                   csvFile, mdFile, exit, fetches, sends, sentOrder>>

\* go func(page int) {...}(page); page++
DispatcherGo ==
    /\ Running /\ dpc = "go"
    /\ tpc' = [tpc EXCEPT ![page] = "fetch"]
    /\ launches' = [launches EXCEPT ![page] = @ + 1]
    /\ page' = page + 1
    /\ dpc' = "loop"
    /\ UNCHANGED <<fmtVars, variant, pageMax, maxConcurrent, failing, wg, sem,
                   productsChan, closed, panicking, cpc, mpc, allProducts,
                   csvFile, mdFile, exit, fetches, sends, sentOrder>>

\* Where the dispatcher goes when fetchProducts' loop ends:
\* main.go closes the sink right after fetchProducts returns, part_000 only
\* runs the deferred wg.Done().
AfterLoop == IF variant = "main" THEN "close" ELSE "wgdone"

\* the loop condition fails: fetchProducts returns
DispatcherLoopExit ==
    /\ Running /\ dpc = "loop" /\ ~LoopCond(page)
    /\ dpc' = AfterLoop
    /\ UNCHANGED <<fmtVars, variant, pageMax, maxConcurrent, failing, wg, sem,
                   productsChan, closed, page, tpc, panicking, cpc, mpc,
                   allProducts, csvFile, mdFile, exit, launches, fetches,
                   sends, sentOrder>>

\* main.go: close(productsChan) in the dispatcher's closure
DispatcherClose ==
    /\ Running /\ dpc = "close"
    /\ closed' = TRUE
    /\ dpc' = "wgdone"
    /\ UNCHANGED <<fmtVars, variant, pageMax, maxConcurrent, failing, wg, sem,
                   productsChan, page, tpc, panicking, cpc, mpc, allProducts,
                   csvFile, mdFile, exit, launches, fetches, sends, sentOrder>>

\* defer wg.Done() of the dispatcher
DispatcherDone ==
    /\ Running /\ dpc = "wgdone"
    /\ wg' = wg - 1
    /\ dpc' = "done"
    /\ UNCHANGED <<fmtVars, variant, pageMax, maxConcurrent, failing, sem, productsChan,
                   closed, page, tpc, panicking, cpc, mpc, allProducts,
                   csvFile, mdFile, exit, launches, fetches, sends, sentOrder>>

Dispatcher ==
    \/ DispatcherAcquire
    \/ DispatcherAdd
    \/ DispatcherGo
    \/ DispatcherLoopExit
    \/ DispatcherClose
    \/ DispatcherDone

-----------------------------------------------------------------------------
(* A fetch task: the goroutine launched for one page.                      *)

\* Where a task goes when fetchData has returned: on an error it logs and
\* returns (its deferred calls run), otherwise it sends the batch.
AfterFetchMutant(r) == "send"
AfterFetchRetry(r) == IF r.err THEN "fetch" ELSE "send"
AfterFetch(r) == IF r.err THEN "release" ELSE "send"

\* response, err := fetchData(url); if err != nil { log; return }
TaskFetch(p) ==
    /\ Running /\ tpc[p] = "fetch"
    /\ fetches' = [fetches EXCEPT ![p] = @ + 1]
    /\ tpc' = [tpc EXCEPT ![p] = AfterFetch(fetchData(p))]
    /\ UNCHANGED <<fmtVars, variant, pageMax, maxConcurrent, failing, wg, sem,
                   productsChan, closed, page, dpc, panicking, cpc, mpc,
                   allProducts, csvFile, mdFile, exit, launches, sends, sentOrder>>

\* productsChan <- response.Data.Products
\* On a closed channel the send panics (also when it was already blocked);
\* otherwise it completes once the buffer has room.
TaskSend(p) ==
    /\ Running /\ tpc[p] = "send"
    /\ \/ /\ closed
          /\ panicking' = panicking \cup {p}
          /\ tpc' = [tpc EXCEPT ![p] = "release"]
          /\ UNCHANGED <<productsChan, sends, sentOrder>>
       \/ /\ ~closed
          /\ Len(productsChan) < chanCap
          /\ productsChan' = Append(productsChan, fetchData(p).products)
          /\ sends' = [sends EXCEPT ![p] = @ + 1]
          /\ sentOrder' = Append(sentOrder, p)
          /\ tpc' = [tpc EXCEPT ![p] = "release"]
          /\ UNCHANGED panicking
    /\ UNCHANGED <<fmtVars, variant, pageMax, maxConcurrent, failing, wg, sem, closed,
                   page, dpc, cpc, mpc, allProducts, csvFile, mdFile, exit,
                   launches, fetches>>

\* a release that is skipped on the error return
TaskReleaseMutant(p) ==
    /\ Running /\ tpc[p] = "release"
    /\ sem > 0
    /\ sem' = IF p \in failing THEN sem ELSE sem - 1
    /\ tpc' = [tpc EXCEPT ![p] = "wgdone"]
    /\ UNCHANGED <<fmtVars, variant, pageMax, maxConcurrent, failing, wg,
                   productsChan, closed, page, dpc, panicking, cpc, mpc,
                   allProducts, csvFile, mdFile, exit, launches, fetches,
                   sends, sentOrder>>

\* defer func() { <-sem }()   (runs first: deferred last)
TaskRelease(p) ==
    /\ Running /\ tpc[p] = "release"
    /\ sem > 0
    /\ sem' = sem - 1
    /\ tpc' = [tpc EXCEPT ![p] = "wgdone"]
    /\ UNCHANGED <<fmtVars, variant, pageMax, maxConcurrent, failing, wg, productsChan,
                   closed, page, dpc, panicking, cpc, mpc, allProducts,
                   csvFile, mdFile, exit, launches, fetches, sends, sentOrder>>

\* defer wg.Done()   (runs last); a panicking task then crashes the process
TaskDone(p) ==
    /\ Running /\ tpc[p] = "wgdone"
    /\ wg' = wg - 1
    /\ tpc' = [tpc EXCEPT ![p] = IF p \in panicking THEN "crash" ELSE "done"]
    /\ UNCHANGED <<fmtVars, variant, pageMax, maxConcurrent, failing, sem, productsChan,
                   closed, page, dpc, panicking, cpc, mpc, allProducts,
                   csvFile, mdFile, exit, launches, fetches, sends, sentOrder>>

\* the unrecovered panic ends the process (exit status 2)
TaskCrash(p) ==
    /\ Running /\ tpc[p] = "crash"
    /\ exit' = "panic"
    /\ UNCHANGED <<fmtVars, variant, pageMax, maxConcurrent, failing, wg, sem,
                   productsChan, closed, page, dpc, tpc, panicking, cpc, mpc,
                   allProducts, csvFile, mdFile, launches, fetches, sends, sentOrder>>

Task(p) ==
    \/ TaskFetch(p)
    \/ TaskSend(p)
    \/ TaskRelease(p)
    \/ TaskDone(p)
    \/ TaskCrash(p)

-----------------------------------------------------------------------------
(* The writers.  A CSV row and a Markdown item are computed from a product *)
(* the way writeCSV and writeMarkdown do; the columns that are copied      *)
(* through unchanged are represented by Title.                             *)

CsvHeader == [Title |-> "Title", Categories |-> "Categories"]

MdHeader == << [Title |-> "Title", Categories |-> "Categories"],
               [Title |-> "---", Categories |-> "---"] >>

Row(product) ==
    [Title |-> product.Title,
     Categories |-> formatCategories(product.Categories)]

RowsOf(products) == [i \in 1..Len(products) |-> Row(products[i])]

-----------------------------------------------------------------------------
(* The consumer of productsChan: in main.go the drain goroutine, in        *)
(* part_000 the goroutine that runs writeCSV on the channel.               *)

\* `for products := range productsChan` can take a batch
CanReceive == Len(productsChan) > 0

\* `for products := range productsChan` ends: closed and drained
RangeEnds == closed /\ Len(productsChan) = 0

\* an append that puts the received batch in front
ConsumerAppendMutant ==
    /\ Running /\ variant = "main" /\ cpc = "range"
    /\ CanReceive
    /\ allProducts' = Head(productsChan) \o allProducts
    /\ productsChan' = Tail(productsChan)
    /\ UNCHANGED <<fmtVars, variant, pageMax, maxConcurrent, failing, wg, sem,
                   closed, page, dpc, tpc, panicking, cpc, mpc, csvFile,
                   mdFile, exit, launches, fetches, sends, sentOrder>>

\* main.go: allProducts = append(allProducts, products...)
ConsumerAppend ==
    /\ Running /\ variant = "main" /\ cpc = "range"
    /\ CanReceive
    /\ allProducts' = allProducts \o Head(productsChan)
    /\ productsChan' = Tail(productsChan)
    /\ UNCHANGED <<fmtVars, variant, pageMax, maxConcurrent, failing, wg, sem,
                   closed, page, dpc, tpc, panicking, cpc, mpc, csvFile,
                   mdFile, exit, launches, fetches, sends, sentOrder>>

\* the range loop ends; main.go then runs the deferred wg.Done(),
\* part_000 returns nil from writeCSV and goes on to `done <- struct{}{}`
ConsumerRangeEnd ==
    /\ Running /\ cpc = "range"
    /\ RangeEnds
    /\ cpc' = IF variant = "main" THEN "wgdone" ELSE "senddone"
    /\ UNCHANGED <<fmtVars, variant, pageMax, maxConcurrent, failing, wg, sem,
                   productsChan, closed, page, dpc, tpc, panicking, mpc,
                   allProducts, csvFile, mdFile, exit, launches, fetches,
                   sends, sentOrder>>

\* main.go: defer wg.Done() of the drain goroutine
ConsumerDone ==
    /\ Running /\ cpc = "wgdone"
    /\ wg' = wg - 1
    /\ cpc' = "done"
    /\ UNCHANGED <<fmtVars, variant, pageMax, maxConcurrent, failing, sem,
                   productsChan, closed, page, dpc, tpc, panicking, mpc,
                   allProducts, csvFile, mdFile, exit, launches, fetches,
                   sends, sentOrder>>

\* part_000 writeCSV: os.Create and the header line; an error is fatal
WriterOpen ==
    /\ Running /\ variant = "part" /\ cpc = "open"
    /\ \/ /\ csvFile' = <<CsvHeader>>
          /\ cpc' = "range"
          /\ UNCHANGED exit
       \/ /\ exit' = "fatal"
          /\ UNCHANGED <<csvFile, cpc>>
    /\ UNCHANGED <<fmtVars, variant, pageMax, maxConcurrent, failing, wg, sem,
                   productsChan, closed, page, dpc, tpc, panicking, mpc,
                   allProducts, mdFile, launches, fetches, sends, sentOrder>>

\* part_000 writeCSV: one batch received and its rows written;
\* a failing writer.Write returns the error, which is fatal
WriterWrite ==
    /\ Running /\ variant = "part" /\ cpc = "range"
    /\ CanReceive
    /\ productsChan' = Tail(productsChan)
    /\ \/ /\ csvFile' = csvFile \o RowsOf(Head(productsChan))
          /\ UNCHANGED exit
       \/ /\ exit' = "fatal"
          /\ UNCHANGED csvFile
    /\ UNCHANGED <<fmtVars, variant, pageMax, maxConcurrent, failing, wg, sem,
                   closed, page, dpc, tpc, panicking, cpc, mpc, allProducts,
                   mdFile, launches, fetches, sends, sentOrder>>

Consumer ==
    \/ ConsumerAppend
    \/ ConsumerRangeEnd
    \/ ConsumerDone
    \/ WriterOpen
    \/ WriterWrite

-----------------------------------------------------------------------------
(* The main routine.                                                       *)

\* wg.Add(1) before the dispatcher is started
MainAddFetch ==
    /\ Running /\ mpc = "add1"
    /\ wg' = wg + 1
    /\ mpc' = "go1"
    /\ UNCHANGED <<fmtVars, variant, pageMax, maxConcurrent, failing, sem,
                   productsChan, closed, page, dpc, tpc, panicking, cpc,
                   allProducts, csvFile, mdFile, exit, launches, fetches,
                   sends, sentOrder>>

\* go func() { ...fetchProducts... }()  /  go fetchProducts(...)
MainGoFetch ==
    /\ Running /\ mpc = "go1"
    /\ dpc' = "loop"
    /\ mpc' = IF variant = "main" THEN "add2" ELSE "go2"
    /\ UNCHANGED <<fmtVars, variant, pageMax, maxConcurrent, failing, wg, sem,
                   productsChan, closed, page, tpc, panicking, cpc,
                   allProducts, csvFile, mdFile, exit, launches, fetches,
                   sends, sentOrder>>

\* main.go: wg.Add(1) before the drain goroutine is started
MainAddDrain ==
    /\ Running /\ mpc = "add2"
    /\ wg' = wg + 1
    /\ mpc' = "go2"
    /\ UNCHANGED <<fmtVars, variant, pageMax, maxConcurrent, failing, sem,
                   productsChan, closed, page, dpc, tpc, panicking, cpc,
                   allProducts, csvFile, mdFile, exit, launches, fetches,
                   sends, sentOrder>>

\* go func() { ...range productsChan... }()  /  go func() { writeCSV... }()
MainGoDrain ==
    /\ Running /\ mpc = "go2"
    /\ cpc' = IF variant = "main" THEN "range" ELSE "open"
    /\ mpc' = "wait"
    /\ UNCHANGED <<fmtVars, variant, pageMax, maxConcurrent, failing, wg, sem,
                   productsChan, closed, page, dpc, tpc, panicking,
                   allProducts, csvFile, mdFile, exit, launches, fetches,
                   sends, sentOrder>>

\* wg.Wait() returns when the counter is zero
WaitReleasedMutant == TRUE
WaitReleased == wg = 0

MainWait ==
    /\ Running /\ mpc = "wait"
    /\ WaitReleased
    /\ mpc' = IF variant = "main" THEN "writeCSV" ELSE "close"
    /\ UNCHANGED <<fmtVars, variant, pageMax, maxConcurrent, failing, wg, sem,
                   productsChan, closed, page, dpc, tpc, panicking, cpc,
                   allProducts, csvFile, mdFile, exit, launches, fetches,
                   sends, sentOrder>>

\* part_000: close(productsChan) after wg.Wait()
MainClose ==
    /\ Running /\ mpc = "close"
    /\ closed' = TRUE
    /\ mpc' = "recvdone"
    /\ UNCHANGED <<fmtVars, variant, pageMax, maxConcurrent, failing, wg, sem,
                   productsChan, page, dpc, tpc, panicking, cpc, allProducts,
                   csvFile, mdFile, exit, launches, fetches, sends, sentOrder>>

\* part_000: `done <- struct{}{}` in the writer goroutine meets `<-done` in
\* main (done is unbuffered)
MainRecvDone ==
    /\ Running /\ mpc = "recvdone" /\ cpc = "senddone"
    /\ mpc' = "print"
    /\ cpc' = "done"
    /\ UNCHANGED <<fmtVars, variant, pageMax, maxConcurrent, failing, wg, sem,
                   productsChan, closed, page, dpc, tpc, panicking,
                   allProducts, csvFile, mdFile, exit, launches, fetches,
                   sends, sentOrder>>

\* main.go: writeCSV(csvFilename, allProducts); an error is fatal
MainWriteCSV ==
    /\ Running /\ mpc = "writeCSV"
    /\ \/ /\ csvFile' = <<CsvHeader>> \o RowsOf(allProducts)
          /\ mpc' = "writeMarkdown"
          /\ UNCHANGED exit
       \/ /\ exit' = "fatal"
          /\ UNCHANGED <<csvFile, mpc>>
    /\ UNCHANGED <<fmtVars, variant, pageMax, maxConcurrent, failing, wg, sem,
                   productsChan, closed, page, dpc, tpc, panicking, cpc,
                   allProducts, mdFile, launches, fetches, sends, sentOrder>>

\* main.go: writeMarkdown(markdownFilename, allProducts); an error is fatal
MainWriteMarkdown ==
    /\ Running /\ mpc = "writeMarkdown"
    /\ \/ /\ mdFile' = MdHeader \o RowsOf(allProducts)
          /\ mpc' = "print"
          /\ UNCHANGED exit
       \/ /\ exit' = "fatal"
          /\ UNCHANGED <<mdFile, mpc>>
    /\ UNCHANGED <<fmtVars, variant, pageMax, maxConcurrent, failing, wg, sem,
                   productsChan, closed, page, dpc, tpc, panicking, cpc,
                   allProducts, csvFile, launches, fetches, sends, sentOrder>>

\* fmt.Println(...) and the return from main: the process ends normally
MainPrint ==
    /\ Running /\ mpc = "print"
    /\ mpc' = "done"
    /\ exit' = "done"
    /\ UNCHANGED <<fmtVars, variant, pageMax, maxConcurrent, failing, wg, sem,
                   productsChan, closed, page, dpc, tpc, panicking, cpc,
                   allProducts, csvFile, mdFile, launches, fetches, sends, sentOrder>>

Main ==
    \/ MainAddFetch
    \/ MainGoFetch
    \/ MainAddDrain
    \/ MainGoDrain
    \/ MainWait
    \/ MainClose
    \/ MainRecvDone
    \/ MainWriteCSV
    \/ MainWriteMarkdown
    \/ MainPrint

-----------------------------------------------------------------------------
(* The pipeline's specification                                            *)

Init ==
    /\ variant \in {"main", "part"}
    /\ pageMax \in 0..MaxPages
    /\ maxConcurrent \in 1..MaxConc
    /\ failing \in SUBSET (0..(pageMax - 1))
    /\ wg = 0
    /\ sem = 0
    /\ productsChan = <<>>
    /\ closed = FALSE
    /\ page = 0
    /\ dpc = "idle"
    /\ tpc = [p \in Pages |-> "none"]
    /\ panicking = {}
    /\ cpc = "idle"
    /\ mpc = "add1"
    /\ allProducts = <<>>
    /\ csvFile = <<>>
    /\ mdFile = <<>>
    /\ exit = "running"
    /\ launches = [p \in Pages |-> 0]
    /\ fetches = [p \in Pages |-> 0]
    /\ sends = [p \in Pages |-> 0]
    /\ sentOrder = <<>>
    /\ categories = <<>>
    /\ formatted = <<>>
    /\ fpc = "idle"

Next ==
    \/ Main
    \/ Dispatcher
    \/ \E p \in Pages : Task(p)
    \/ Consumer

Spec == Init /\ [][Next]_vars

\* Every goroutine that can run eventually runs (Go's scheduler), and a
\* fetchData call eventually returns.
Fairness ==
    /\ WF_vars(Main)
    /\ WF_vars(Dispatcher)
    /\ \A p \in Pages : WF_vars(Task(p))
    /\ WF_vars(Consumer)

FairSpec == Spec /\ Fairness

-----------------------------------------------------------------------------
(* formatCategories on its own: the argument is drawn from the bounded     *)
(* category forests and one call computes the result.                      *)

Paths == SeqsUpTo(Labels, MaxPath)

CategoryInputs == SeqsUpTo(Paths, MaxCats)

\* categories := product.Categories; formatted := formatCategories(categories)
FmtCall ==
    /\ fpc = "call"
    /\ formatted' = formatCategories(categories)
    /\ fpc' = "ret"
    /\ UNCHANGED <<pipeVars, categories>>

InitFmt ==
    /\ categories \in CategoryInputs
    /\ formatted = <<>>
    /\ fpc = "call"
    /\ variant = "main"
    /\ pageMax = 0
    /\ maxConcurrent = 1
    /\ failing = {}
    /\ wg = 0
    /\ sem = 0
    /\ productsChan = <<>>
    /\ closed = FALSE
    /\ page = 0
    /\ dpc = "idle"
    /\ tpc = [p \in Pages |-> "none"]
    /\ panicking = {}
    /\ cpc = "idle"
    /\ mpc = "idle"
    /\ allProducts = <<>>
    /\ csvFile = <<>>
    /\ mdFile = <<>>
    /\ exit = "running"
    /\ launches = [p \in Pages |-> 0]
    /\ fetches = [p \in Pages |-> 0]
    /\ sends = [p \in Pages |-> 0]
    /\ sentOrder = <<>>

NextFmt == FmtCall

SpecFmt == InitFmt /\ [][NextFmt]_vars

-----------------------------------------------------------------------------
(* Vocabulary of the properties                                            *)

PageRange == 0..(pageMax - 1)

Succeeding == PageRange \ failing

Fetching == { p \in Pages : tpc[p] = "fetch" }

\* main.go: main is past wg.Wait() and the writers hold allProducts
MainHandedOff ==
    variant = "main" /\ mpc \in {"writeCSV", "writeMarkdown", "print", "done"}

\* part_000: writeCSV has returned nil
WriterReturned == variant = "part" /\ cpc \in {"senddone", "done"}

\* main is past wg.Wait()
BarrierReleased == mpc \notin {"add1", "go1", "add2", "go2", "wait"}

Terminated == exit = "done" \/ exit = "fatal"

\* task p has run its deferred wg.Done()
TaskOver(p) == tpc[p] \in {"done", "crash"}

Count(seq, x) == Cardinality({ i \in 1..Len(seq) : seq[i] = x })

\* seq holds every record of every succeeding page's batch once, and
\* nothing else (batch[p] is the batch of page p)
HoldsExactly(seq, batch) ==
    /\ \A p \in Pages : \A i \in 1..Len(batch[p]) :
          Count(seq, batch[p][i]) = IF p \in Succeeding THEN 1 ELSE 0
    /\ \A k \in 1..Len(seq) :
          \E p \in Pages : \E i \in 1..Len(batch[p]) : seq[k] = batch[p][i]

ProductBatches == [p \in Pages |-> Products(p)]

RowBatches == [p \in Pages |-> RowsOf(Products(p))]

-----------------------------------------------------------------------------
(* C1: the sink is closed only after every dispatched task has completed:  *)
(* no state has productsChan closed while a task is still in fetchData or  *)
(* still at its send.                                                      *)
C1_ClosedOnlyAfterTasks ==
    closed => \A p \in Pages : tpc[p] \notin {"fetch", "send"}

(* C2: completeness modulo failures: what is handed to the writers         *)
(* (main.go: allProducts; part_000: the rows writeCSV wrote) holds every   *)
(* record of every succeeding page exactly once and nothing of a failing   *)
(* page.                                                                   *)
C2_Completeness ==
    /\ MainHandedOff => HoldsExactly(allProducts, ProductBatches)
    /\ WriterReturned => HoldsExactly(Tail(csvFile), RowBatches)

(* C3: at most maxConcurrent tasks execute fetchData at any instant.       *)
C3_ConcurrencyBound == Cardinality(Fetching) <= maxConcurrent

\* the gate is saturated: maxConcurrent fetches are in flight and the
\* dispatch loop is blocked on its acquire with a page still to go
C3_Witness ==
    /\ Cardinality(Fetching) = maxConcurrent /\ sem = maxConcurrent
    /\ dpc = "loop" /\ page < pageMax

(* C4: under fair scheduling every run ends, either normally (Done) or on  *)
(* a fatal output error; it never stops in a deadlock or a panic.          *)
C4_EventuallyDone == <>Terminated

(* C5: every page of [0,pageMax) is launched exactly once by the time the  *)
(* dispatch loop has finished, no other page is launched, no page is       *)
(* fetched twice (a failure is not retried), and a run that completes has  *)
(* fetched every page once, whichever pages fail.                          *)
C5_DispatchOnce ==
    /\ \A p \in Pages : launches[p] <= 1 /\ fetches[p] <= launches[p]
    /\ \A p \in Pages : p \notin PageRange => launches[p] = 0
    /\ dpc \in {"close", "wgdone", "done"} =>
          \A p \in PageRange : launches[p] = 1
    /\ (exit = "done" \/ BarrierReleased) =>
          \A p \in PageRange : fetches[p] = 1

\* a completed run of two pages, the first of which failed, fetched each once
C5_Witness ==
    /\ exit = "done" /\ pageMax = 2 /\ failing = {0}
    /\ \A p \in PageRange : fetches[p] = 1 /\ launches[p] = 1

(* C6: wg.Wait() in main returns only after all pageMax tasks have been    *)
(* dispatched and each has completed its fetch and, on success, its send;  *)
(* once main has registered the dispatcher the counter is zero only then,  *)
(* and it is never negative.                                               *)
C6_Barrier ==
    /\ wg >= 0
    /\ (BarrierReleased \/ (wg = 0 /\ mpc # "add1")) =>
          \A p \in PageRange :
             /\ TaskOver(p)
             /\ fetches[p] = 1
             /\ p \in Succeeding => sends[p] = 1

(* C7: allProducts is changed only by the drain consumer's append, and    *)
(* only before main is past the barrier; the file written by writeCSV is   *)
(* changed only by the one writer; main.go's writers hold allProducts only *)
(* after the consumer has exhausted the closed sink and terminated; and    *)
(* part_000's main reports success only after the streaming writer has     *)
(* exhausted the closed sink.                                              *)
C7_SingleWriterHandOff ==
    /\ [][allProducts' # allProducts =>
             /\ variant = "main" /\ cpc = "range" /\ cpc' = "range"
             /\ ~BarrierReleased]_vars
    /\ [][csvFile' # csvFile =>
             \/ variant = "part" /\ cpc \in {"open", "range"}
             \/ variant = "main" /\ mpc = "writeCSV"]_vars
    /\ [](MainHandedOff =>
             cpc = "done" /\ closed /\ productsChan = <<>>)
    /\ [](variant = "part" /\ mpc \in {"print", "done"} =>
             cpc = "done" /\ closed /\ productsChan = <<>>)

\* main.go's second writer is reading a collection the consumer filled
C7_Witness ==
    /\ variant = "main" /\ mpc = "writeMarkdown"
    /\ Len(allProducts) > 0 /\ cpc = "done"

ZeroPages == pageMax = 0

(* C8: with pageMax = 0 no task is launched and no fetch is performed, the *)
(* run ends (Done, or a fatal output error), and what the writers get is   *)
(* empty: they write their headers only.                                   *)
C8_ZeroPages ==
    /\ [](ZeroPages =>
             /\ \A p \in Pages : launches[p] = 0 /\ fetches[p] = 0
             /\ exit # "panic"
             /\ MainHandedOff => allProducts = <<>>
             /\ WriterReturned => csvFile = <<CsvHeader>>
             /\ exit = "done" => csvFile = <<CsvHeader>>
             /\ exit = "done" /\ variant = "main" => mdFile = MdHeader)
    /\ (ZeroPages ~> Terminated)

\* a zero-page run of main.go is Done with header-only files
C8_Witness ==
    /\ pageMax = 0 /\ exit = "done" /\ variant = "main"
    /\ csvFile = <<CsvHeader>> /\ mdFile = MdHeader /\ dpc = "done"

AllFail == pageMax >= 1 /\ failing = PageRange

(* C9: when every fetch of pageMax >= 1 pages fails, nothing is ever sent  *)
(* to the sink, the collection is empty at hand-off, no task panics, and   *)
(* the run still ends (Done, or a fatal output error).                     *)
C9_AllPagesFail ==
    /\ [](AllFail =>
             /\ \A p \in Pages : sends[p] = 0
             /\ productsChan = <<>>
             /\ panicking = {} /\ exit # "panic"
             /\ MainHandedOff => allProducts = <<>>
             /\ WriterReturned => csvFile = <<CsvHeader>>)
    /\ (AllFail ~> Terminated)

\* a run of two pages that both failed is Done, every page fetched once
C9_Witness ==
    /\ AllFail /\ pageMax = 2 /\ exit = "done"
    /\ \A p \in PageRange : fetches[p] = 1 /\ tpc[p] = "done"

\* the first label of each non-empty path, in order
FirstLabels(cats) ==
    LET nonEmpty == SelectSeq(cats, LAMBDA c : Len(c) > 0)
    IN  [i \in 1..Len(nonEmpty) |-> nonEmpty[i][1]]

RECURSIVE Join(_, _)
Join(strs, sep) ==
    IF strs = <<>> THEN <<>>
    ELSE IF Len(strs) = 1 THEN strs[1]
    ELSE strs[1] \o sep \o Join(Tail(strs), sep)

\* [["Programming","Go"],["Web"]], the labels abbreviated to P, Go and W
ExampleCategories == << <<<<"P">>, <<"G", "o">>>>, <<<<"W">>>> >>

ExampleFormatted == <<"P", " ", ">", " ", "W">>

(* C10: formatCategories returns the first label of each non-empty path,   *)
(* in order, joined by " > " with no trailing separator, the empty string  *)
(* for the empty sequence, and "Programming > Web" for the example.        *)
C10_Flattening ==
    fpc = "ret" =>
       /\ formatted = Join(FirstLabels(categories), Separator)
       /\ categories = <<>> => formatted = <<>>
       /\ categories = ExampleCategories => formatted = ExampleFormatted

\* the example has been formatted
C10_Witness ==
    /\ fpc = "ret" /\ categories = ExampleCategories
    /\ formatted = ExampleFormatted

(* C11: a task sends exactly one batch when its fetch succeeds and none   *)
(* when it fails: no page is sent twice, a failing page is never sent, and *)
(* a task of a succeeding page that is over has completed one send.        *)
C11_OneSendOnSuccess ==
    /\ \A p \in Pages : sends[p] <= 1
    /\ \A p \in failing : sends[p] = 0
    /\ \A p \in Succeeding : TaskOver(p) => sends[p] = 1

\* the tasks that hold a gate slot: launched, deferred <-sem not yet run
SlotHolders == { p \in Pages : tpc[p] \in {"fetch", "send", "release"} }

\* the slot the dispatch loop has acquired for the page it is launching
SlotInHand == IF dpc \in {"add", "go"} THEN 1 ELSE 0

\* page p has been admitted: the dispatch loop has acquired its slot
Admitted(p) == p < page \/ (p = page /\ dpc \in {"add", "go"})

(* C12 as stated: the tokens in sem are as many as the tasks admitted and  *)
(* not yet terminated.                                                     *)
C12_TokensEqualLiveTasks ==
    sem = Cardinality({ p \in Pages : Admitted(p) /\ ~TaskOver(p) })

(* C12, amended: the tokens in sem are as many as the slots acquired and   *)
(* not yet released (the tasks at their fetch, at their send or about to   *)
(* run the deferred <-sem, plus the page being launched), at most          *)
(* maxConcurrent; a task at its send holds its slot; and the gate is empty *)
(* once the loop has ended and every task is past its release, on the      *)
(* success path and on the failure path alike.                             *)
C12_GateAccounting ==
    /\ sem = Cardinality(SlotHolders) + SlotInHand
    /\ 0 <= sem /\ sem <= maxConcurrent
    /\ \A p \in Pages : tpc[p] = "send" => sem >= 1
    /\ (dpc \in {"close", "wgdone", "done"}
          /\ \A p \in PageRange : tpc[p] \in {"wgdone", "done", "crash"})
       => sem = 0

\* a task keeps its slot while it waits to send into the full buffer, after
\* an earlier task has released its own and terminated
C12_Witness ==
    \E p \in Pages : \E q \in Pages :
       /\ tpc[p] = "send" /\ Len(productsChan) = chanCap /\ ~closed
       /\ tpc[q] = "done" /\ sem = 1

\* task p is at its send and cannot complete it
BlockedOnSend(p) == Running /\ tpc[p] = "send" /\ ~ENABLED TaskSend(p)

(* C13 as stated: no task that fetched successfully waits on its send      *)
(* because the sink buffer is full.                                        *)
C13_NeverBlocksOnFullBuffer ==
    \A p \in Pages :
       ~(tpc[p] = "send" /\ ~closed /\ Len(productsChan) >= maxConcurrent)

(* C13, amended: the buffer never holds more than maxConcurrent batches; a *)
(* task waits on its send only while the open sink holds maxConcurrent     *)
(* batches that the consumer, which has not finished, has yet to receive;  *)
(* and the first maxConcurrent sends of a run never wait.                  *)
C13_BlocksOnlyWhenFull ==
    /\ Len(productsChan) <= maxConcurrent
    /\ \A p \in Pages : BlockedOnSend(p) =>
          /\ Len(productsChan) = maxConcurrent /\ ~closed
          /\ cpc \in {"idle", "open", "range"}
          /\ Len(sentOrder) >= maxConcurrent

\* a producer waits on the full buffer while the consumer is in its loop
C13_Witness ==
    \E p \in Pages :
       /\ BlockedOnSend(p) /\ cpc = "range"
       /\ Len(productsChan) = maxConcurrent

RECURSIVE Flatten(_)
Flatten(batches) ==
    IF batches = <<>> THEN <<>>
    ELSE Head(batches) \o Flatten(Tail(batches))

\* the batches in the order their sends completed
SentBatches == [i \in 1..Len(sentOrder) |-> Products(sentOrder[i])]

(* C14: the sink is FIFO (it holds the most recently sent batches, in the  *)
(* order sent), and what the single consumer has collected, followed by    *)
(* what is still buffered, is the concatenation of the sent batches in the *)
(* order they were sent: each batch contiguous and in its own order, the   *)
(* batches in arrival order, whatever their page indices.                  *)
C14_ReceiptOrder ==
    /\ productsChan = SubSeq(SentBatches,
                             Len(sentOrder) - Len(productsChan) + 1,
                             Len(sentOrder))
    /\ variant = "main" =>
          allProducts \o Flatten(productsChan) = Flatten(SentBatches)
    /\ (variant = "part" /\ cpc \in {"range", "senddone", "done"}
          /\ exit # "fatal") =>
          Tail(csvFile) \o RowsOf(Flatten(productsChan))
             = RowsOf(Flatten(SentBatches))

\* page 1 arrived before page 0 and the collection handed to the writers
\* has them in that order
C14_Witness ==
    /\ variant = "main" /\ mpc = "writeCSV" /\ sentOrder = <<1, 0>>
    /\ allProducts = Products(1) \o Products(0)

(* C15: dispatch is ascending: the launched pages are exactly those below *)
(* the loop variable; a gate slot is acquired only by the dispatch loop,   *)
(* and only when every lower page has been launched and no higher one; and *)
(* the loop's acquire is blocked exactly when maxConcurrent slots are      *)
(* held.                                                                   *)
C15_AscendingDispatch ==
    /\ [][sem' > sem =>
             /\ dpc = "loop" /\ dpc' = "add" /\ sem' = sem + 1
             /\ \A i \in Pages : i < page => launches[i] = 1
             /\ \A j \in Pages : j >= page => launches[j] = 0]_vars
    /\ [](\A p \in Pages : launches[p] = 1 <=> p < page)
    /\ []((Running /\ dpc = "loop" /\ page < pageMax) =>
             (ENABLED DispatcherAcquire <=> sem < maxConcurrent))

\* the slot of page 1 has just been acquired, after page 0 was launched,
\* and both slots of the gate are held
C15_Witness ==
    /\ dpc = "add" /\ page = 1 /\ sem = 2
    /\ launches[0] = 1 /\ launches[1] = 0 /\ tpc[0] \in {"fetch", "send"}

(* C16: no task executes its send after close(productsChan): no send     *)
(* meets the closed sink and panics.                                       *)
C16_NoSendOnClosedSink ==
    /\ panicking = {}
    /\ \A p \in Pages : ~(tpc[p] = "send" /\ closed)

\* what a completed run has handed to its writer, as rows
Delivered == IF variant = "main" THEN RowsOf(allProducts) ELSE Tail(csvFile)

(* C17: the two variants deliver the same: a completed run of either hands *)
(* its writer the batches of the succeeding pages, each once (so what is   *)
(* delivered depends on pageMax and the failing pages only, not on the     *)
(* variant), and main.go has no run that a panic ends, as part_000 has     *)
(* none.                                                                   *)
C17_VariantsAgree ==
    /\ exit = "done" =>
          /\ \A p \in Pages :
                Count(sentOrder, p) = IF p \in Succeeding THEN 1 ELSE 0
          /\ \A p \in Pages : \A i \in 1..Len(RowBatches[p]) :
                Count(Delivered, RowBatches[p][i])
                   = IF p \in Succeeding THEN 1 ELSE 0
          /\ Len(Delivered) = Len(Flatten(SentBatches))
    /\ exit # "panic"

=============================================================================
